---- MODULE Spec2Model ----
(***************************************************************************)
(* Model of the ink! contract `Payroll` (src/lib.rs).                      *)
(*                                                                         *)
(* The contract's storage is the three fields owner, salaries and budget.  *)
(* Every message is run to completion by the host, so each message is one  *)
(* action.  A failed assert!/unwrap() panics: the message stops at that    *)
(* line, and the model returns the storage as written up to that line.     *)
(* The outcome of env().transfer() is decided by the host and is an input  *)
(* of the action.  Balance is u128 in the contract; the model scales       *)
(* u128::MAX down to MaxBalance and keeps the saturating arithmetic.       *)
(*                                                                         *)
(* lastCall records the message executed by the last step (its caller,     *)
(* arguments, result, the transfers it requested and the events it         *)
(* emitted).  totalDeposited, totalPaid, totalWithdrawn and clamped are    *)
(* history variables: they are not read by any handler.                    *)
(***************************************************************************)
EXTENDS Integers, Sequences, FiniteSets, TLC

VARIABLES owner, salaries, budget,
          lastCall,
          totalDeposited, totalPaid, totalWithdrawn, clamped

vars == <<owner, salaries, budget, lastCall,
          totalDeposited, totalPaid, totalWithdrawn, clamped>>

----------------------------------------------------------------------------
(* Bounds *)

\* Balance::MAX (u128::MAX), scaled down.
MaxBalance == 3

\* Cap on the running sum of deposits (a history counter, unbounded in the
\* program).  Larger than MaxBalance so that a deposit can saturate.
MaxDeposited == 4

\* AccountId values: the identities that call the contract or are named in
\* a call.
Accounts == {"C1", "E1"}

\* Placeholder for the employee field of a call that names no employee.
NoAccount == "-"

Balance == 0..MaxBalance

----------------------------------------------------------------------------
(* Results of a message: Ok, or the panic that stopped it. *)

Ok == "Ok"

Unauthorized == "Only owner"

InvalidSalary == "Invalid salary"

EmployeeNotFound == "Employee not found"

InsufficientBudget == "Insufficient budget"

TransferFailed == "called Result::unwrap() on an Err value"

Errors == {Unauthorized, InvalidSalary, EmployeeNotFound, InsufficientBudget,
           TransferFailed}

----------------------------------------------------------------------------
(* Balance arithmetic and Mapping/Option primitives *)

\* Mutant of saturating_add: the sum wraps around.
wrapping_add(a, b) == (a + b) % (MaxBalance + 1)

saturating_add(a, b) == IF a + b > MaxBalance THEN MaxBalance ELSE a + b

saturating_sub(a, b) == IF b > a THEN 0 ELSE a - b

\* Option<Balance>: <<>> is None, <<v>> is Some(v).
Mapping_get(m, k) == IF k \in DOMAIN m THEN <<m[k]>> ELSE <<>>

unwrap_or(opt, default) == IF opt = <<>> THEN default ELSE opt[1]

Mapping_insert(m, k, v) ==
    [x \in (DOMAIN m) \cup {k} |-> IF x = k THEN v ELSE m[x]]

\* Mutant of Mapping_remove: clears the whole mapping.
Mapping_remove_all(m, k) == [x \in {} |-> 0]

Mapping_remove(m, k) == [x \in (DOMAIN m) \ {k} |-> m[x]]

\* Mapping::default(): the empty mapping.
Mapping_default == [x \in {} |-> 0]

----------------------------------------------------------------------------
(* Events and transfers *)

EmployeeAdded(employee, salary) ==
    [event |-> "EmployeeAdded", employee |-> employee, salary |-> salary]

SalaryPaid(employee, amount) ==
    [event |-> "SalaryPaid", employee |-> employee, amount |-> amount]

\* env().transfer(to, value), with the host's answer.
Transfer(to, value, ok) == [to |-> to, value |-> value, ok |-> ok]

\* The outcome of a message: its result, the storage it leaves, the
\* transfers it requested and the events it emitted.
Outcome(result, s, b, transfers, events) ==
    [result |-> result, salaries |-> s, budget |-> b,
     transfers |-> transfers, events |-> events]

----------------------------------------------------------------------------
(* Read-only messages *)

get_salary(employee) == unwrap_or(Mapping_get(salaries, employee), 0)

get_budget == budget

get_owner == owner

----------------------------------------------------------------------------
(* Handlers: the outcome of each mutating message on the current storage *)

\* Mutant of add_employee: the entry is written before the salary check.
add_employee_insert_first(caller, employee, salary) ==
    IF owner # caller THEN Outcome(Unauthorized, salaries, budget, <<>>, <<>>)
    ELSE IF ~(salary > 0)
    THEN Outcome(InvalidSalary, Mapping_insert(salaries, employee, salary),
                 budget, <<>>, <<>>)
    ELSE Outcome(Ok, Mapping_insert(salaries, employee, salary), budget,
                 <<>>, <<EmployeeAdded(employee, salary)>>)

\* Mutant of add_employee: no salary check.
add_employee_no_salary_check(caller, employee, salary) ==
    IF owner # caller THEN Outcome(Unauthorized, salaries, budget, <<>>, <<>>)
    ELSE Outcome(Ok, Mapping_insert(salaries, employee, salary), budget,
                 <<>>, <<EmployeeAdded(employee, salary)>>)

\* Mutant of add_employee: the salary is stored under the caller.
add_employee_keyed_by_caller(caller, employee, salary) ==
    IF owner # caller THEN Outcome(Unauthorized, salaries, budget, <<>>, <<>>)
    ELSE IF ~(salary > 0)
    THEN Outcome(InvalidSalary, salaries, budget, <<>>, <<>>)
    ELSE Outcome(Ok, Mapping_insert(salaries, caller, salary), budget,
                 <<>>, <<EmployeeAdded(employee, salary)>>)

\* Mutant of add_employee: the salary is checked before the caller.
add_employee_salary_check_first(caller, employee, salary) ==
    IF ~(salary > 0)
    THEN Outcome(InvalidSalary, salaries, budget, <<>>, <<>>)
    ELSE IF owner # caller
    THEN Outcome(Unauthorized, salaries, budget, <<>>, <<>>)
    ELSE Outcome(Ok, Mapping_insert(salaries, employee, salary), budget,
                 <<>>, <<EmployeeAdded(employee, salary)>>)

\* Mutant of add_employee: no event is emitted.
add_employee_no_event(caller, employee, salary) ==
    IF owner # caller THEN Outcome(Unauthorized, salaries, budget, <<>>, <<>>)
    ELSE IF ~(salary > 0)
    THEN Outcome(InvalidSalary, salaries, budget, <<>>, <<>>)
    ELSE Outcome(Ok, Mapping_insert(salaries, employee, salary), budget,
                 <<>>, <<>>)

add_employee(caller, employee, salary) ==
    IF owner # caller THEN Outcome(Unauthorized, salaries, budget, <<>>, <<>>)
    ELSE IF ~(salary > 0)
    THEN Outcome(InvalidSalary, salaries, budget, <<>>, <<>>)
    ELSE Outcome(Ok, Mapping_insert(salaries, employee, salary), budget,
                 <<>>, <<EmployeeAdded(employee, salary)>>)

deposit(amount) ==
    Outcome(Ok, salaries, saturating_add(budget, amount), <<>>, <<>>)

\* Mutant of pay_salary: the budget is not debited after the transfer.
pay_salary_no_debit(caller, employee, transferOk) ==
    LET salary == unwrap_or(Mapping_get(salaries, employee), 0) IN
    IF owner # caller THEN Outcome(Unauthorized, salaries, budget, <<>>, <<>>)
    ELSE IF ~(salary > 0)
    THEN Outcome(EmployeeNotFound, salaries, budget, <<>>, <<>>)
    ELSE IF ~(budget >= salary)
    THEN Outcome(InsufficientBudget, salaries, budget, <<>>, <<>>)
    ELSE IF ~transferOk
    THEN Outcome(TransferFailed, salaries, budget,
                 <<Transfer(employee, salary, FALSE)>>, <<>>)
    ELSE Outcome(Ok, salaries, budget,
                 <<Transfer(employee, salary, TRUE)>>,
                 <<SalaryPaid(employee, salary)>>)

\* Mutant of pay_salary: no budget check.
pay_salary_no_budget_check(caller, employee, transferOk) ==
    LET salary == unwrap_or(Mapping_get(salaries, employee), 0) IN
    IF owner # caller THEN Outcome(Unauthorized, salaries, budget, <<>>, <<>>)
    ELSE IF ~(salary > 0)
    THEN Outcome(EmployeeNotFound, salaries, budget, <<>>, <<>>)
    ELSE IF ~transferOk
    THEN Outcome(TransferFailed, salaries, budget,
                 <<Transfer(employee, salary, FALSE)>>, <<>>)
    ELSE Outcome(Ok, salaries, saturating_sub(budget, salary),
                 <<Transfer(employee, salary, TRUE)>>,
                 <<SalaryPaid(employee, salary)>>)

\* Mutant of pay_salary: an absent employee is a successful no-op.
pay_salary_absent_noop(caller, employee, transferOk) ==
    LET salary == unwrap_or(Mapping_get(salaries, employee), 0) IN
    IF owner # caller THEN Outcome(Unauthorized, salaries, budget, <<>>, <<>>)
    ELSE IF ~(salary > 0)
    THEN Outcome(Ok, salaries, budget, <<>>, <<>>)
    ELSE IF ~(budget >= salary)
    THEN Outcome(InsufficientBudget, salaries, budget, <<>>, <<>>)
    ELSE IF ~transferOk
    THEN Outcome(TransferFailed, salaries, budget,
                 <<Transfer(employee, salary, FALSE)>>, <<>>)
    ELSE Outcome(Ok, salaries, saturating_sub(budget, salary),
                 <<Transfer(employee, salary, TRUE)>>,
                 <<SalaryPaid(employee, salary)>>)

\* Mutant of pay_salary: the salary is transferred to the owner.
pay_salary_to_owner(caller, employee, transferOk) ==
    LET salary == unwrap_or(Mapping_get(salaries, employee), 0) IN
    IF owner # caller THEN Outcome(Unauthorized, salaries, budget, <<>>, <<>>)
    ELSE IF ~(salary > 0)
    THEN Outcome(EmployeeNotFound, salaries, budget, <<>>, <<>>)
    ELSE IF ~(budget >= salary)
    THEN Outcome(InsufficientBudget, salaries, budget, <<>>, <<>>)
    ELSE IF ~transferOk
    THEN Outcome(TransferFailed, salaries, budget,
                 <<Transfer(owner, salary, FALSE)>>, <<>>)
    ELSE Outcome(Ok, salaries, saturating_sub(budget, salary),
                 <<Transfer(owner, salary, TRUE)>>,
                 <<SalaryPaid(employee, salary)>>)

\* Mutant of pay_salary: the entry is deleted once the salary is paid.
pay_salary_clears_entry(caller, employee, transferOk) ==
    LET salary == unwrap_or(Mapping_get(salaries, employee), 0) IN
    IF owner # caller THEN Outcome(Unauthorized, salaries, budget, <<>>, <<>>)
    ELSE IF ~(salary > 0)
    THEN Outcome(EmployeeNotFound, salaries, budget, <<>>, <<>>)
    ELSE IF ~(budget >= salary)
    THEN Outcome(InsufficientBudget, salaries, budget, <<>>, <<>>)
    ELSE IF ~transferOk
    THEN Outcome(TransferFailed, salaries, budget,
                 <<Transfer(employee, salary, FALSE)>>, <<>>)
    ELSE Outcome(Ok, Mapping_remove(salaries, employee),
                 saturating_sub(budget, salary),
                 <<Transfer(employee, salary, TRUE)>>,
                 <<SalaryPaid(employee, salary)>>)

pay_salary(caller, employee, transferOk) ==
    LET salary == unwrap_or(Mapping_get(salaries, employee), 0) IN
    IF owner # caller THEN Outcome(Unauthorized, salaries, budget, <<>>, <<>>)
    ELSE IF ~(salary > 0)
    THEN Outcome(EmployeeNotFound, salaries, budget, <<>>, <<>>)
    ELSE IF ~(budget >= salary)
    THEN Outcome(InsufficientBudget, salaries, budget, <<>>, <<>>)
    ELSE IF ~transferOk
    THEN Outcome(TransferFailed, salaries, budget,
                 <<Transfer(employee, salary, FALSE)>>, <<>>)
    ELSE Outcome(Ok, salaries, saturating_sub(budget, salary),
                 <<Transfer(employee, salary, TRUE)>>,
                 <<SalaryPaid(employee, salary)>>)

\* Mutant of remove_employee: no caller check.
remove_employee_no_auth(caller, employee) ==
    Outcome(Ok, Mapping_remove(salaries, employee), budget, <<>>, <<>>)

\* Mutant of remove_employee: removing an absent employee is an error.
remove_employee_absent_error(caller, employee) ==
    IF owner # caller THEN Outcome(Unauthorized, salaries, budget, <<>>, <<>>)
    ELSE IF Mapping_get(salaries, employee) = <<>>
    THEN Outcome(EmployeeNotFound, salaries, budget, <<>>, <<>>)
    ELSE Outcome(Ok, Mapping_remove(salaries, employee), budget, <<>>, <<>>)

\* Mutant of remove_employee: the removed salary is taken off the budget.
remove_employee_refunds(caller, employee) ==
    IF owner # caller THEN Outcome(Unauthorized, salaries, budget, <<>>, <<>>)
    ELSE Outcome(Ok, Mapping_remove(salaries, employee),
                 saturating_sub(budget, get_salary(employee)), <<>>, <<>>)

remove_employee(caller, employee) ==
    IF owner # caller THEN Outcome(Unauthorized, salaries, budget, <<>>, <<>>)
    ELSE Outcome(Ok, Mapping_remove(salaries, employee), budget, <<>>, <<>>)

\* Mutant of withdraw: the budget is not debited after the transfer.
withdraw_no_debit(caller, amount, transferOk) ==
    IF owner # caller THEN Outcome(Unauthorized, salaries, budget, <<>>, <<>>)
    ELSE IF ~(amount <= budget)
    THEN Outcome(InsufficientBudget, salaries, budget, <<>>, <<>>)
    ELSE IF ~transferOk
    THEN Outcome(TransferFailed, salaries, budget,
                 <<Transfer(owner, amount, FALSE)>>, <<>>)
    ELSE Outcome(Ok, salaries, budget,
                 <<Transfer(owner, amount, TRUE)>>, <<>>)

\* Mutant of withdraw: the budget is debited before the transfer.
withdraw_debit_first(caller, amount, transferOk) ==
    IF owner # caller THEN Outcome(Unauthorized, salaries, budget, <<>>, <<>>)
    ELSE IF ~(amount <= budget)
    THEN Outcome(InsufficientBudget, salaries, budget, <<>>, <<>>)
    ELSE IF ~transferOk
    THEN Outcome(TransferFailed, salaries,
                 saturating_sub(budget, amount),
                 <<Transfer(owner, amount, FALSE)>>, <<>>)
    ELSE Outcome(Ok, salaries, saturating_sub(budget, amount),
                 <<Transfer(owner, amount, TRUE)>>, <<>>)

\* Mutant of withdraw: the budget check is strict.
withdraw_strict_check(caller, amount, transferOk) ==
    IF owner # caller THEN Outcome(Unauthorized, salaries, budget, <<>>, <<>>)
    ELSE IF ~(amount < budget)
    THEN Outcome(InsufficientBudget, salaries, budget, <<>>, <<>>)
    ELSE IF ~transferOk
    THEN Outcome(TransferFailed, salaries, budget,
                 <<Transfer(owner, amount, FALSE)>>, <<>>)
    ELSE Outcome(Ok, salaries, saturating_sub(budget, amount),
                 <<Transfer(owner, amount, TRUE)>>, <<>>)

\* Mutant of withdraw: no budget check.
withdraw_no_budget_check(caller, amount, transferOk) ==
    IF owner # caller THEN Outcome(Unauthorized, salaries, budget, <<>>, <<>>)
    ELSE IF ~transferOk
    THEN Outcome(TransferFailed, salaries, budget,
                 <<Transfer(owner, amount, FALSE)>>, <<>>)
    ELSE Outcome(Ok, salaries, saturating_sub(budget, amount),
                 <<Transfer(owner, amount, TRUE)>>, <<>>)

withdraw(caller, amount, transferOk) ==
    IF owner # caller THEN Outcome(Unauthorized, salaries, budget, <<>>, <<>>)
    ELSE IF ~(amount <= budget)
    THEN Outcome(InsufficientBudget, salaries, budget, <<>>, <<>>)
    ELSE IF ~transferOk
    THEN Outcome(TransferFailed, salaries, budget,
                 <<Transfer(owner, amount, FALSE)>>, <<>>)
    ELSE Outcome(Ok, salaries, saturating_sub(budget, amount),
                 <<Transfer(owner, amount, TRUE)>>, <<>>)

----------------------------------------------------------------------------
(* State machine *)

Call(op, caller, employee, amount, out) ==
    [op |-> op, caller |-> caller, employee |-> employee, amount |-> amount,
     result |-> out.result, transfers |-> out.transfers,
     events |-> out.events]

\* Value moved out of the contract by a message: its successful transfers.
Sent(out) == IF out.result = Ok /\ out.transfers # <<>>
             THEN out.transfers[1].value ELSE 0

\* Payroll::new(): owner is the creating caller.
\* Mutant of Init: owner is not taken from the creating caller.
Init_owner_not_caller ==
    \E creator \in Accounts, other \in Accounts :
        /\ owner = other
        /\ salaries = Mapping_default
        /\ budget = 0
        /\ lastCall = Call("new", creator, NoAccount, 0,
                           Outcome(Ok, Mapping_default, 0, <<>>, <<>>))
        /\ totalDeposited = 0
        /\ totalPaid = 0
        /\ totalWithdrawn = 0
        /\ clamped = FALSE

Init ==
    \E creator \in Accounts :
        /\ owner = creator
        /\ salaries = Mapping_default
        /\ budget = 0
        /\ lastCall = Call("new", creator, NoAccount, 0,
                           Outcome(Ok, Mapping_default, 0, <<>>, <<>>))
        /\ totalDeposited = 0
        /\ totalPaid = 0
        /\ totalWithdrawn = 0
        /\ clamped = FALSE

AddEmployee ==
    \E caller \in Accounts, employee \in Accounts, salary \in Balance :
        LET out == add_employee(caller, employee, salary) IN
        /\ salaries' = out.salaries
        /\ budget' = out.budget
        /\ lastCall' = Call("add_employee", caller, employee, salary, out)
        /\ UNCHANGED <<owner, totalDeposited, totalPaid, totalWithdrawn,
                       clamped>>

Deposit ==
    \E caller \in Accounts, amount \in Balance :
        LET out == deposit(amount) IN
        /\ totalDeposited + amount <= MaxDeposited
        /\ salaries' = out.salaries
        /\ budget' = out.budget
        /\ lastCall' = Call("deposit", caller, NoAccount, amount, out)
        /\ totalDeposited' = totalDeposited + amount
        /\ clamped' = (clamped \/ budget + amount > MaxBalance)
        /\ UNCHANGED <<owner, totalPaid, totalWithdrawn>>

PaySalary ==
    \E caller \in Accounts, employee \in Accounts, transferOk \in BOOLEAN :
        LET out == pay_salary(caller, employee, transferOk) IN
        /\ salaries' = out.salaries
        /\ budget' = out.budget
        /\ lastCall' = Call("pay_salary", caller, employee, 0, out)
        /\ totalPaid' = totalPaid + Sent(out)
        /\ UNCHANGED <<owner, totalDeposited, totalWithdrawn, clamped>>

RemoveEmployee ==
    \E caller \in Accounts, employee \in Accounts :
        LET out == remove_employee(caller, employee) IN
        /\ salaries' = out.salaries
        /\ budget' = out.budget
        /\ lastCall' = Call("remove_employee", caller, employee, 0, out)
        /\ UNCHANGED <<owner, totalDeposited, totalPaid, totalWithdrawn,
                       clamped>>

Withdraw ==
    \E caller \in Accounts, amount \in Balance, transferOk \in BOOLEAN :
        LET out == withdraw(caller, amount, transferOk) IN
        /\ salaries' = out.salaries
        /\ budget' = out.budget
        /\ lastCall' = Call("withdraw", caller, NoAccount, amount, out)
        /\ totalWithdrawn' = totalWithdrawn + Sent(out)
        /\ UNCHANGED <<owner, totalDeposited, totalPaid, clamped>>

Next ==
    \/ AddEmployee
    \/ Deposit
    \/ PaySalary
    \/ RemoveEmployee
    \/ Withdraw

Spec == Init /\ [][Next]_vars

TypeOK ==
    /\ owner \in Accounts
    /\ DOMAIN salaries \subseteq Accounts
    /\ \A e \in DOMAIN salaries : salaries[e] \in Balance
    /\ budget \in Balance
    /\ totalDeposited \in 0..MaxDeposited
    /\ totalPaid \in 0..MaxDeposited
    /\ totalWithdrawn \in 0..MaxDeposited
    /\ clamped \in BOOLEAN

----------------------------------------------------------------------------
(* Properties *)

\* The messages that only owner may call.
OwnerOps == {"add_employee", "remove_employee", "pay_salary", "withdraw"}

\* Deposits minus successful payments minus successful withdrawals.
NetDeposited == totalDeposited - totalPaid - totalWithdrawn

\* C1 (as stated): in every reachable state budget equals the sum of all
\* deposited amounts minus the successfully paid salaries minus the
\* successfully withdrawn amounts.
C1_BudgetEqualsNet == budget = NetDeposited

\* C1 (amended): as long as no deposit has been clamped at the maximum
\* balance, budget equals deposits minus successful payments minus
\* successful withdrawals.
C1_BudgetEqualsNetUnlessClamped == ~clamped => budget = NetDeposited

\* A state with a payment, a withdrawal and a failed transfer behind it and
\* money left, no deposit having been clamped.
C1_Witness ==
    /\ ~clamped
    /\ totalPaid > 0
    /\ totalWithdrawn > 0
    /\ budget > 0
    /\ lastCall.result = TransferFailed

\* C2: budget is never negative and never exceeds total deposits minus total
\* successful disbursements, also after a deposit has saturated.
C2_BudgetWithinNet == budget >= 0 /\ budget <= NetDeposited

\* A deposit has saturated: budget is at the maximum, below the net deposits.
C2_Witness ==
    /\ clamped
    /\ lastCall.op = "deposit"
    /\ budget = MaxBalance
    /\ budget < NetDeposited

\* C3: add_employee, remove_employee, pay_salary and withdraw by a caller
\* other than owner fail with Unauthorized and change neither owner,
\* salaries nor budget, request no transfer and emit no event.
C3_NonOwnerRejected ==
    [][(lastCall'.op \in OwnerOps /\ lastCall'.caller # owner)
        => /\ lastCall'.result = Unauthorized
           /\ owner' = owner
           /\ salaries' = salaries
           /\ budget' = budget
           /\ lastCall'.transfers = <<>>
           /\ lastCall'.events = <<>>]_vars

\* A non-owner tried to remove an existing employee while there was budget.
C3_Witness ==
    /\ lastCall.op = "remove_employee"
    /\ lastCall.caller # owner
    /\ lastCall.result = Unauthorized
    /\ lastCall.employee \in DOMAIN salaries
    /\ budget > 0

\* C4: when the transfer requested by pay_salary or withdraw fails, the call
\* fails with TransferFailed, budget, salaries and owner keep their values
\* and no event is emitted.
C4_FailedTransferChangesNothing ==
    [][(lastCall'.transfers # <<>> /\ ~lastCall'.transfers[1].ok)
        => /\ lastCall'.op \in {"pay_salary", "withdraw"}
           /\ lastCall'.result = TransferFailed
           /\ budget' = budget
           /\ salaries' = salaries
           /\ owner' = owner
           /\ lastCall'.events = <<>>]_vars

\* A pay_salary whose transfer of a positive salary failed.
C4_Witness ==
    /\ lastCall.op = "pay_salary"
    /\ lastCall.result = TransferFailed
    /\ lastCall.transfers # <<>>
    /\ lastCall.transfers[1].value > 0
    /\ budget >= lastCall.transfers[1].value

\* C5: pay_salary by owner for an employee whose salary exceeds budget, and
\* withdraw by owner of more than budget, fail with InsufficientBudget,
\* request no transfer and leave budget unchanged.
C5_InsufficientBudget ==
    [][((\/ /\ lastCall'.op = "pay_salary"
            /\ get_salary(lastCall'.employee) > budget
         \/ /\ lastCall'.op = "withdraw"
            /\ lastCall'.amount > budget)
        /\ lastCall'.caller = owner)
        => /\ lastCall'.result = InsufficientBudget
           /\ lastCall'.transfers = <<>>
           /\ budget' = budget]_vars

\* Scenario B scaled down: budget 1, salary 2, pay_salary fails.
C5_Witness ==
    /\ lastCall.op = "pay_salary"
    /\ lastCall.result = InsufficientBudget
    /\ budget = 1
    /\ get_salary(lastCall.employee) = 2

\* C6: pay_salary by owner for an employee with no stored salary fails with
\* EmployeeNotFound whatever the budget, requests no transfer, emits no
\* event and leaves budget unchanged.
C6_AbsentEmployeeNotFound ==
    [][(/\ lastCall'.op = "pay_salary"
        /\ lastCall'.caller = owner
        /\ lastCall'.employee \notin DOMAIN salaries)
        => /\ lastCall'.result = EmployeeNotFound
           /\ lastCall'.transfers = <<>>
           /\ lastCall'.events = <<>>
           /\ budget' = budget]_vars

\* pay_salary for an absent employee failed although there was budget.
C6_Witness ==
    /\ lastCall.op = "pay_salary"
    /\ lastCall.result = EmployeeNotFound
    /\ lastCall.employee \notin DOMAIN salaries
    /\ budget > 0

\* C7: a call that ends in any of the five errors leaves owner, salaries and
\* budget as they were and emits no event.
C7_ErrorsChangeNothing ==
    [][lastCall'.result # Ok
        => /\ lastCall'.result \in Errors
           /\ owner' = owner
           /\ salaries' = salaries
           /\ budget' = budget
           /\ lastCall'.events = <<>>]_vars

\* An add_employee rejected for its salary, for an employee that has an
\* entry, while there is budget.
C7_Witness ==
    /\ lastCall.op = "add_employee"
    /\ lastCall.result = InvalidSalary
    /\ lastCall.employee \in DOMAIN salaries
    /\ budget > 0

\* Every stored salary is strictly positive.
SalariesPositive == \A e \in DOMAIN salaries : salaries[e] > 0

\* Only a successful add_employee writes a salary, and only its employee's:
\* any other step leaves every entry as it was or deletes it.
OnlyAddEmployeeWrites ==
    \A e \in DOMAIN salaries' :
        \/ e \in DOMAIN salaries /\ salaries'[e] = salaries[e]
        \/ /\ lastCall'.op = "add_employee"
           /\ lastCall'.result = Ok
           /\ lastCall'.employee = e

\* C8 (as stated): every stored salary is strictly positive; add_employee
\* with salary 0 is rejected with InvalidSalary and stores nothing; no other
\* operation writes a salary.
C8_ZeroSalaryInvalid ==
    /\ []SalariesPositive
    /\ [][/\ (lastCall'.op = "add_employee" /\ lastCall'.amount = 0)
             => (lastCall'.result = InvalidSalary /\ salaries' = salaries)
          /\ OnlyAddEmployeeWrites]_vars

\* C8 (amended): every stored salary is strictly positive; add_employee with
\* salary 0 is rejected (with InvalidSalary when the caller is owner, with
\* Unauthorized otherwise) and stores nothing; no other operation writes a
\* salary.
C8_ZeroSalaryRejected ==
    /\ []SalariesPositive
    /\ [][/\ (lastCall'.op = "add_employee" /\ lastCall'.amount = 0)
             => /\ lastCall'.result =
                       (IF lastCall'.caller = owner THEN InvalidSalary
                        ELSE Unauthorized)
                /\ salaries' = salaries
          /\ OnlyAddEmployeeWrites]_vars

\* The owner's add_employee with salary 0 was rejected and the employee's
\* existing entry is still there.
C8_Witness ==
    /\ lastCall.op = "add_employee"
    /\ lastCall.amount = 0
    /\ lastCall.caller = owner
    /\ lastCall.result = InvalidSalary
    /\ get_salary(lastCall.employee) > 0

\* C9: after a successful add_employee(e, s), get_salary(e) is s, and it
\* keeps its value over every step that is not a successful add_employee or
\* remove_employee for e.
C9_SalaryStable ==
    [][\A e \in Accounts :
        LET written == /\ lastCall'.op \in {"add_employee", "remove_employee"}
                       /\ lastCall'.result = Ok
                       /\ lastCall'.employee = e
        IN /\ (written /\ lastCall'.op = "add_employee")
                => (lastCall'.amount > 0 /\ get_salary(e)' = lastCall'.amount)
           /\ ~written => get_salary(e)' = get_salary(e)]_vars

\* An employee has just been paid and still has the salary that was paid,
\* while the other identity has been removed.
C9_Witness ==
    /\ lastCall.op = "pay_salary"
    /\ lastCall.result = Ok
    /\ get_salary(lastCall.employee) = lastCall.transfers[1].value
    /\ get_salary(lastCall.employee) > 1
    /\ DOMAIN salaries = {lastCall.employee}

\* C10: pay_salary by owner for a stored salary s > 0 with budget >= s
\* requests exactly one transfer, of s to the employee; when the transfer
\* succeeds the call succeeds, budget decreases by exactly s and exactly one
\* SalaryPaid{employee, s} is emitted.
C10_PaySalaryEffect ==
    [][LET e == lastCall'.employee
           s == get_salary(e)
       IN (/\ lastCall'.op = "pay_salary"
           /\ lastCall'.caller = owner
           /\ s > 0
           /\ budget >= s)
          => /\ Len(lastCall'.transfers) = 1
             /\ lastCall'.transfers[1].to = e
             /\ lastCall'.transfers[1].value = s
             /\ lastCall'.transfers[1].ok
                  => /\ lastCall'.result = Ok
                     /\ budget' = budget - s
                     /\ lastCall'.events = <<SalaryPaid(e, s)>>]_vars

\* Scenario C scaled down: salary 2 paid out of budget 3 leaves budget 1.
C10_Witness ==
    /\ lastCall.op = "pay_salary"
    /\ lastCall.result = Ok
    /\ lastCall.transfers = <<Transfer(lastCall.employee, 2, TRUE)>>
    /\ lastCall.events = <<SalaryPaid(lastCall.employee, 2)>>
    /\ lastCall.employee # owner
    /\ budget = 1
    /\ totalDeposited = 3
    /\ totalPaid = 2

\* C11: withdraw by owner of an amount <= budget requests exactly one
\* transfer, of amount to owner; when the transfer succeeds the call
\* succeeds and budget decreases by exactly amount, so withdrawing the whole
\* budget leaves 0; with budget 0 every withdraw of a positive amount by
\* owner fails with InsufficientBudget.
C11_WithdrawEffect ==
    [][(lastCall'.op = "withdraw" /\ lastCall'.caller = owner)
        => /\ lastCall'.amount <= budget
                => /\ Len(lastCall'.transfers) = 1
                   /\ lastCall'.transfers[1].to = owner
                   /\ lastCall'.transfers[1].value = lastCall'.amount
                   /\ lastCall'.transfers[1].ok
                        => /\ lastCall'.result = Ok
                           /\ budget' = budget - lastCall'.amount
                           /\ (lastCall'.amount = budget => budget' = 0)
                   /\ lastCall'.events = <<>>
           /\ (budget = 0 /\ lastCall'.amount > 0)
                => /\ lastCall'.result = InsufficientBudget
                   /\ lastCall'.transfers = <<>>
                   /\ budget' = 0]_vars

\* Scenario E scaled down: the whole budget of 2 has just been withdrawn.
C11_Witness ==
    /\ lastCall.op = "withdraw"
    /\ lastCall.result = Ok
    /\ lastCall.amount = 2
    /\ lastCall.transfers = <<Transfer(owner, 2, TRUE)>>
    /\ budget = 0
    /\ NetDeposited = 0
    /\ totalWithdrawn = 2

\* The smaller of two balances.
Min(a, b) == IF a <= b THEN a ELSE b

\* C12: deposit succeeds for every caller and every amount and sets budget
\* to min(budget + amount, MAX); budget never wraps to a smaller value.
C12_DepositSaturates ==
    [][lastCall'.op = "deposit"
        => /\ lastCall'.result = Ok
           /\ budget' = Min(budget + lastCall'.amount, MaxBalance)
           /\ budget' >= budget
           /\ lastCall'.transfers = <<>>]_vars

\* A deposit by a non-owner that was clamped: budget was positive, the
\* amount was positive, and budget is now at the maximum.
C12_Witness ==
    /\ lastCall.op = "deposit"
    /\ lastCall.caller # owner
    /\ lastCall.amount > 0
    /\ budget = MaxBalance
    /\ clamped
    /\ totalDeposited = MaxBalance + 1
    /\ totalPaid = 0
    /\ totalWithdrawn = 0

\* C13: owner is the creating caller after construction, no step changes
\* it, and get_owner returns it.
C13_OwnerImmutable ==
    /\ [](lastCall.op = "new" => get_owner = lastCall.caller)
    /\ [][owner' = owner /\ get_owner' = owner]_vars

\* The owner has withdrawn, has an employee on the books, and somebody else
\* has just deposited: owner is still the caller of the owner-only calls.
C13_Witness ==
    /\ lastCall.op = "deposit"
    /\ lastCall.caller # owner
    /\ totalWithdrawn > 0
    /\ DOMAIN salaries # {}
    /\ get_owner = owner

\* C14: the total value transferred out never exceeds the total value
\* deposited, and every transfer is either a withdraw transfer to owner or a
\* pay_salary transfer to the employee named in the call, of that
\* employee's salary stored when the call was made.
C14_NoMoneyCreatedOrMisdirected ==
    /\ [](totalPaid + totalWithdrawn <= totalDeposited)
    /\ [][\A i \in 1..Len(lastCall'.transfers) :
            LET t == lastCall'.transfers[i] IN
            \/ /\ lastCall'.op = "withdraw"
               /\ t.to = owner
            \/ /\ lastCall'.op = "pay_salary"
               /\ t.to = lastCall'.employee
               /\ lastCall'.employee \in DOMAIN salaries
               /\ t.value = salaries[lastCall'.employee]]_vars

\* Everything deposited has been transferred out, part as a salary to an
\* employee who is not the owner and part as a withdrawal.
C14_Witness ==
    /\ lastCall.op = "pay_salary"
    /\ lastCall.result = Ok
    /\ lastCall.employee # owner
    /\ lastCall.transfers[1].to = lastCall.employee
    /\ totalWithdrawn > 0
    /\ totalPaid + totalWithdrawn = totalDeposited

\* C15: remove_employee by owner succeeds whether or not the employee has an
\* entry; afterwards get_salary(employee) is 0 and no other entry has
\* changed; applied again to the resulting state it succeeds and leaves that
\* state as it is.
C15_RemoveIdempotent ==
    [][\A e \in Accounts :
        (/\ lastCall'.op = "remove_employee"
         /\ lastCall'.caller = owner
         /\ lastCall'.employee = e)
        => /\ lastCall'.result = Ok
           /\ get_salary(e)' = 0
           /\ e \notin DOMAIN salaries'
           /\ DOMAIN salaries' = DOMAIN salaries \ {e}
           /\ \A x \in DOMAIN salaries' : salaries'[x] = salaries[x]
           /\ remove_employee(owner, e)'.result = Ok
           /\ remove_employee(owner, e)'.salaries = salaries'
           /\ remove_employee(owner, e)'.budget = budget']_vars

\* The owner removed an employee that had no entry, and the other entry is
\* still there.
C15_Witness ==
    /\ lastCall.op = "remove_employee"
    /\ lastCall.caller = owner
    /\ lastCall.result = Ok
    /\ get_salary(lastCall.employee) = 0
    /\ DOMAIN salaries = Accounts \ {lastCall.employee}
    /\ budget > 0

\* C16: a newly constructed contract has owner equal to the creating caller,
\* budget 0 and no salary for any identity; a first add_employee(e, s) by
\* the owner, s > 0, then gives get_salary(e) = s with get_budget still 0.
C16_Construction ==
    /\ [](lastCall.op = "new"
            => /\ owner = lastCall.caller
               /\ get_budget = 0
               /\ salaries = Mapping_default
               /\ \A a \in Accounts : get_salary(a) = 0)
    /\ [][\A e \in Accounts :
            (/\ lastCall.op = "new"
             /\ lastCall'.op = "add_employee"
             /\ lastCall'.caller = owner
             /\ lastCall'.employee = e
             /\ lastCall'.amount > 0)
            => /\ lastCall'.result = Ok
               /\ get_salary(e)' = lastCall'.amount
               /\ \A a \in Accounts \ {e} : get_salary(a)' = 0
               /\ get_budget' = 0]_vars

\* Scenario A scaled down: nothing deposited, the owner has added one
\* employee, other than the owner, with the largest salary.
C16_Witness ==
    /\ lastCall.op = "add_employee"
    /\ lastCall.result = Ok
    /\ lastCall.employee # owner
    /\ lastCall.amount = MaxBalance
    /\ get_salary(lastCall.employee) = MaxBalance
    /\ DOMAIN salaries = {lastCall.employee}
    /\ get_budget = 0
    /\ totalDeposited = 0

\* The first precondition of a call that fails on the current storage, in
\* the order caller, salary validity / employee existence, budget; Ok when
\* none fails.
FirstFailure(op, caller, employee, amount) ==
    IF op \in OwnerOps /\ caller # owner THEN Unauthorized
    ELSE IF op = "add_employee" /\ amount <= 0 THEN InvalidSalary
    ELSE IF op = "pay_salary" /\ get_salary(employee) = 0
    THEN EmployeeNotFound
    ELSE IF op = "pay_salary" /\ budget < get_salary(employee)
    THEN InsufficientBudget
    ELSE IF op = "withdraw" /\ budget < amount THEN InsufficientBudget
    ELSE Ok

\* C17: the five errors are distinct, and every call reports the error of
\* its first failing precondition in the order caller, salary validity /
\* employee existence, budget, transfer outcome; it succeeds when none fails.
C17_FirstFailingPrecondition ==
    /\ [](Cardinality(Errors) = 5 /\ Ok \notin Errors)
    /\ [][LET f == FirstFailure(lastCall'.op, lastCall'.caller,
                                lastCall'.employee, lastCall'.amount)
          IN IF f # Ok THEN lastCall'.result = f
             ELSE IF lastCall'.transfers # <<>>
                     /\ ~lastCall'.transfers[1].ok
             THEN lastCall'.result = TransferFailed
             ELSE lastCall'.result = Ok]_vars

\* A non-owner's add_employee with salary 0 reported Unauthorized.
C17_Witness ==
    /\ lastCall.op = "add_employee"
    /\ lastCall.caller # owner
    /\ lastCall.amount = 0
    /\ lastCall.result = Unauthorized

\* C18: a successful add_employee emits exactly one EmployeeAdded carrying
\* the employee and the salary just stored; an add_employee that fails
\* emits nothing; no other message emits EmployeeAdded.
C18_EmployeeAddedEvent ==
    [][/\ (lastCall'.op = "add_employee" /\ lastCall'.result = Ok)
            => /\ lastCall'.events
                    = <<EmployeeAdded(lastCall'.employee, lastCall'.amount)>>
               /\ lastCall'.employee \in DOMAIN salaries'
               /\ salaries'[lastCall'.employee] = lastCall'.events[1].salary
       /\ (lastCall'.op = "add_employee" /\ lastCall'.result # Ok)
            => /\ lastCall'.result \in {Unauthorized, InvalidSalary}
               /\ lastCall'.events = <<>>
       /\ lastCall'.op # "add_employee"
            => \A i \in 1..Len(lastCall'.events) :
                   lastCall'.events[i].event # "EmployeeAdded"]_vars

\* After a salary of 2 has been paid, the only employee on the books has
\* salary 1 from the add_employee just executed.
C18_Witness ==
    /\ lastCall.op = "add_employee"
    /\ lastCall.result = Ok
    /\ lastCall.events = <<EmployeeAdded(lastCall.employee, 1)>>
    /\ get_salary(lastCall.employee) = 1
    /\ DOMAIN salaries = {lastCall.employee}
    /\ totalPaid = 2
    /\ totalDeposited = 2

\* C19: a successful pay_salary leaves every salaries entry unchanged, so in
\* the resulting state the owner's pay_salary for the same employee passes
\* every check again and debits one more salary when budget >= salary, and
\* fails with InsufficientBudget when budget < salary.
C19_SalaryPayableAgain ==
    [][\A e \in Accounts :
        (/\ lastCall'.op = "pay_salary"
         /\ lastCall'.result = Ok
         /\ lastCall'.employee = e)
        => /\ salaries' = salaries
           /\ get_salary(e)' = lastCall'.transfers[1].value
           /\ IF budget' >= get_salary(e)'
              THEN /\ pay_salary(owner, e, TRUE)'.result = Ok
                   /\ pay_salary(owner, e, TRUE)'.budget
                        = budget' - get_salary(e)'
                   /\ pay_salary(owner, e, TRUE)'.salaries = salaries
              ELSE /\ pay_salary(owner, e, TRUE)'.result = InsufficientBudget
                   /\ pay_salary(owner, e, FALSE)'.result
                        = InsufficientBudget
                   /\ pay_salary(owner, e, TRUE)'.budget = budget']_vars

\* The only employee on the books has salary 2 and has just been paid; two
\* salaries' worth has been paid out and the budget is exhausted.
C19_Witness ==
    /\ lastCall.op = "pay_salary"
    /\ lastCall.result = Ok
    /\ get_salary(lastCall.employee) = 2
    /\ DOMAIN salaries = {lastCall.employee}
    /\ totalPaid = 4
    /\ budget = 0

\* C20: add_employee and remove_employee never change budget and request no
\* transfer; deposit and withdraw never change a salaries entry.
C20_IndependentHalves ==
    [][/\ lastCall'.op \in {"add_employee", "remove_employee"}
            => /\ budget' = budget
               /\ lastCall'.transfers = <<>>
       /\ lastCall'.op \in {"deposit", "withdraw"}
            => /\ salaries' = salaries
               /\ \A a \in Accounts : get_salary(a)' = get_salary(a)]_vars

\* An employee who is not the owner has just deposited and still has its
\* salary.
C20_Witness ==
    /\ lastCall.op = "deposit"
    /\ lastCall.amount > 0
    /\ lastCall.caller # owner
    /\ lastCall.caller \in DOMAIN salaries
    /\ get_salary(lastCall.caller) > 0

====
